---- MODULE Spec2Model ----
(***************************************************************************)
(* Model of the compile entry points of src/python/python_app.py:          *)
(* CompileResult / to_dict, validate_json, compile_simplicity,             *)
(* compile_with_witness and the /api/compile handler.                      *)
(*                                                                         *)
(* A Python str is a finite sequence of lexemes.  The lexeme " " is a      *)
(* whitespace character; every other lexeme is a non-empty run of          *)
(* non-whitespace characters.  str.strip() and the json decoder are        *)
(* computed on these sequences.                                            *)
(*                                                                         *)
(* A Python value (None, str, int, bool, list, dict) is a record with the  *)
(* fields t (type tag), n (number), s (text pieces), keys and kids.        *)
(***************************************************************************)
EXTENDS Integers, Sequences, FiniteSets, TLC

\* ---------------------------------------------------------------- bounds
MaxCodeLen == 2
MaxWitnessLen == 2
MaxCalls == 3

\* ------------------------------------------------------------ state
VARIABLES
    request,    \* the call under observation: its kind and arguments
    result,     \* what the last call of request returned or raised
    response,   \* what that call handed to its caller: to_dict() or the JSON body
    first,      \* result and response of the first call of request, and the
                \* number of calls the process had served when it returned
    own,        \* number of calls of request made so far
    calls,      \* number of calls the process has served, other clients' included
    since,      \* number of other clients' calls served since the last call of request
    log         \* number of records written to the module's logger

vars == <<request, result, response, first, own, calls, since, log>>

\* ---------------------------------------------------------- Python values
PyNone == [t |-> "None", n |-> 0, s |-> <<>>, keys |-> <<>>, kids |-> <<>>]
PyStr(pieces) == [t |-> "str", n |-> 0, s |-> pieces, keys |-> <<>>, kids |-> <<>>]
PyInt(i) == [t |-> "int", n |-> i, s |-> <<>>, keys |-> <<>>, kids |-> <<>>]
PyBool(b) == [t |-> "bool", n |-> IF b THEN 1 ELSE 0, s |-> <<>>, keys |-> <<>>, kids |-> <<>>]
PyList(items) == [t |-> "list", n |-> 0, s |-> <<>>, keys |-> <<>>, kids |-> items]
PyDict(ks, vs) == [t |-> "dict", n |-> 0, s |-> <<>>, keys |-> ks, kids |-> vs]

\* bool(v): Python truthiness, as used by "if self.witness_data:"
truthy(v) ==
    CASE v.t = "None" -> FALSE
      [] v.t = "str" -> v.s # <<>>
      [] v.t = "int" -> v.n # 0
      [] v.t = "bool" -> v.n = 1
      [] v.t = "list" -> v.kids # <<>>
      [] v.t = "dict" -> v.keys # <<>>

\* len(v) is defined for str, list and dict; for None, int and bool it raises TypeError
has_len(v) == v.t \in {"str", "list", "dict"}

\* ------------------------------------------------------------ str.strip()
Whitespace == {" "}

RECURSIVE lstrip(_)
lstrip(s) == IF s # <<>> /\ Head(s) \in Whitespace THEN lstrip(Tail(s)) ELSE s

RECURSIVE rstrip(_)
rstrip(s) ==
    IF s # <<>> /\ s[Len(s)] \in Whitespace THEN rstrip(SubSeq(s, 1, Len(s) - 1)) ELSE s

strip(s) == rstrip(lstrip(s))

\* ------------------------------------------------------------ json.loads
StringTokens == {"\"VALUE\"", "\"OTHER\"", "\"\""}

StringText(tok) ==
    CASE tok = "\"VALUE\"" -> <<"VALUE">>
      [] tok = "\"OTHER\"" -> <<"OTHER">>
      [] tok = "\"\"" -> <<>>

Digits == {"0", "1"}

DigitValue(tok) == IF tok = "0" THEN 0 ELSE 1

\* the digits of an integer literal that follow its first digit
RECURSIVE ScanDigits(_, _, _)
ScanDigits(s, i, acc) ==
    IF i <= Len(s) /\ s[i] \in Digits
    THEN ScanDigits(s, i + 1, acc * 10 + DigitValue(s[i]))
    ELSE [v |-> acc, next |-> i]

ParseFail == [ok |-> FALSE, v |-> PyNone, next |-> 0]
ParseOk(v, next) == [ok |-> TRUE, v |-> v, next |-> next]

\* the decoder's whitespace skip: the first index >= i that holds no whitespace
RECURSIVE SkipWs(_, _)
SkipWs(s, i) == IF i <= Len(s) /\ s[i] \in Whitespace THEN SkipWs(s, i + 1) ELSE i

\* dict[k] = v: a repeated key keeps its position and takes the later value
DictPut(ks, vs, k, v) ==
    IF \E i \in 1..Len(ks) : ks[i] = k
    THEN [keys |-> ks, kids |-> [i \in 1..Len(vs) |-> IF ks[i] = k THEN v ELSE vs[i]]]
    ELSE [keys |-> Append(ks, k), kids |-> Append(vs, v)]

RECURSIVE ParseValue(_, _)
RECURSIVE ParseMembers(_, _, _, _)
RECURSIVE ParseElements(_, _, _)

\* JSONObject after "{": j is the index of the next non-whitespace lexeme
ParseObject(s, j) ==
    IF j <= Len(s) /\ s[j] = "}" THEN ParseOk(PyDict(<<>>, <<>>), j + 1)
    ELSE ParseMembers(s, j, <<>>, <<>>)

\* JSONArray after "[": j is the index of the next non-whitespace lexeme
ParseArray(s, j) ==
    IF j <= Len(s) /\ s[j] = "]" THEN ParseOk(PyList(<<>>), j + 1)
    ELSE ParseElements(s, j, <<>>)

\* an integer literal: num holds its value and the index after its last digit
ParseNumber(num) == ParseOk(PyInt(num.v), num.next)

\* scan_once at index i
ParseValue(s, i) ==
    IF i > Len(s) THEN ParseFail
    ELSE CASE s[i] = "{" -> ParseObject(s, SkipWs(s, i + 1))
           [] s[i] = "[" -> ParseArray(s, SkipWs(s, i + 1))
           [] s[i] \in StringTokens -> ParseOk(PyStr(StringText(s[i])), i + 1)
           [] s[i] = "0" -> ParseOk(PyInt(0), i + 1)
           [] s[i] \in Digits \ {"0"} ->
                ParseNumber(ScanDigits(s, i + 1, DigitValue(s[i])))
           [] s[i] = "null" -> ParseOk(PyNone, i + 1)
           [] s[i] = "true" -> ParseOk(PyBool(TRUE), i + 1)
           [] s[i] = "false" -> ParseOk(PyBool(FALSE), i + 1)
           [] OTHER -> ParseFail

\* JSONObject after a pair: e is the index of the next non-whitespace lexeme and
\* d holds the pairs read so far
MemberEnd(s, e, d) ==
    IF e > Len(s) THEN ParseFail
    ELSE IF s[e] = "}" THEN ParseOk(PyDict(d.keys, d.kids), e + 1)
    ELSE IF s[e] = "," THEN ParseMembers(s, SkipWs(s, e + 1), d.keys, d.kids)
    ELSE ParseFail

\* JSONObject after key k and its colon: r is the parse of the value
MemberValue(s, ks, vs, k, r) ==
    IF ~r.ok THEN ParseFail
    ELSE MemberEnd(s, SkipWs(s, r.next), DictPut(ks, vs, k, r.v))

\* JSONObject after key k: colon is the index of the next non-whitespace lexeme
MemberColon(s, ks, vs, k, colon) ==
    IF colon > Len(s) \/ s[colon] # ":" THEN ParseFail
    ELSE MemberValue(s, ks, vs, k, ParseValue(s, SkipWs(s, colon + 1)))

\* JSONObject: s[i] must open a "key" : value pair; ks, vs are the pairs read so far
ParseMembers(s, i, ks, vs) ==
    IF i > Len(s) \/ s[i] \notin StringTokens THEN ParseFail
    ELSE MemberColon(s, ks, vs, StringText(s[i]), SkipWs(s, i + 1))

\* JSONArray after a value: e is the index of the next non-whitespace lexeme
ElementEnd(s, e, items) ==
    IF e > Len(s) THEN ParseFail
    ELSE IF s[e] = "]" THEN ParseOk(PyList(items), e + 1)
    ELSE IF s[e] = "," THEN ParseElements(s, SkipWs(s, e + 1), items)
    ELSE ParseFail

\* JSONArray: r is the parse of the next value
ElementValue(s, items, r) ==
    IF ~r.ok THEN ParseFail
    ELSE ElementEnd(s, SkipWs(s, r.next), Append(items, r.v))

\* JSONArray: s[i] must open a value; items are the values read so far
ParseElements(s, i, items) == ElementValue(s, items, ParseValue(s, i))

\* JSONDecoder.decode after raw_decode: only whitespace may follow the value
DecodeEnd(data, r) ==
    IF ~r.ok THEN ParseFail
    ELSE IF SkipWs(data, r.next) <= Len(data) THEN ParseFail
    ELSE r

\* json.loads(data): ok = FALSE stands for raising json.JSONDecodeError
json_loads(data) == DecodeEnd(data, ParseValue(data, SkipWs(data, 1)))

\* str(e) of a json.JSONDecodeError
JSONDecodeErrorText == "<JSONDecodeError>"

\* ------------------------------------------------------------ CompileResult
CompileResult(cmr, error, witness_data) ==
    [cmr |-> cmr, error |-> error, witness_data |-> witness_data]

\* CompileResult.to_dict: the witness_data key is set only when the value is truthy
to_dict(self) ==
    [cmr |-> self.cmr,
     error |-> self.error,
     has_witness_data |-> truthy(self.witness_data),
     witness_data |-> IF truthy(self.witness_data) THEN self.witness_data ELSE PyNone]

\* A call either returns a value or raises; lines counts its logger records
Return(value, lines) == [raised |-> "None", value |-> value, lines |-> lines]
Raise(exc, lines) ==
    [raised |-> exc, value |-> CompileResult(PyNone, PyNone, PyNone), lines |-> lines]

\* validate_json with the "Invalid JSON: " prefix left out of the message
validate_json_bare_message(data) ==
    IF json_loads(data).ok
    THEN [is_valid |-> TRUE, error_msg |-> PyStr(<<>>)]
    ELSE [is_valid |-> FALSE, error_msg |-> PyStr(<<JSONDecodeErrorText>>)]

validate_json(data) ==
    IF json_loads(data).ok
    THEN [is_valid |-> TRUE, error_msg |-> PyStr(<<>>)]
    ELSE [is_valid |-> FALSE, error_msg |-> PyStr(<<"Invalid JSON: ", JSONDecodeErrorText>>)]

PlaceholderCMR == "c40a10263f7436b4160acbef1c36fba4be4d95df181a968afeab5eac247adff7"

\* compile_simplicity answering from process-wide state instead of from its argument
compile_simplicity_shared_state(code) ==
    IF code = <<>> \/ strip(code) = <<>>
    THEN Return(CompileResult(PyNone, PyStr(<<"Code is empty">>), PyNone), 0)
    ELSE Return(CompileResult(PyStr(IF log = 0 THEN <<PlaceholderCMR>> ELSE <<"cached">>),
                              PyNone, PyNone), 1)

compile_simplicity(code) ==
    IF code = <<>> \/ strip(code) = <<>>
    THEN Return(CompileResult(PyNone, PyStr(<<"Code is empty">>), PyNone), 0)
    ELSE Return(CompileResult(PyStr(<<PlaceholderCMR>>), PyNone, PyNone), 1)

\* compile_with_witness that keeps going after a failed validation: the error is
\* reported together with the CMR
compile_with_witness_error_and_cmr(code, witness_data) ==
    IF code = <<>> \/ strip(code) = <<>>
    THEN Return(CompileResult(PyNone, PyStr(<<"Code is empty">>), PyNone), 0)
    ELSE IF witness_data = <<>> \/ strip(witness_data) = <<>>
    THEN Return(CompileResult(PyNone, PyStr(<<"Witness data is empty">>), PyNone), 0)
    ELSE LET checked == validate_json(witness_data)
             witness_json == json_loads(witness_data)
         IN  IF ~checked.is_valid
             THEN Return(CompileResult(PyStr(<<PlaceholderCMR>>), checked.error_msg, PyNone), 0)
             ELSE IF ~has_len(json_loads(witness_data).v)
             THEN Raise("TypeError", 1)
             ELSE IF ~witness_json.ok
             THEN Return(CompileResult(PyNone,
                             PyStr(<<"Witness parse error: ", JSONDecodeErrorText>>),
                             PyNone), 2)
             ELSE Return(CompileResult(PyStr(<<PlaceholderCMR>>), PyNone, witness_json.v), 2)

\* compile_with_witness that tests the witness before the source
compile_with_witness_witness_first(code, witness_data) ==
    IF witness_data = <<>> \/ strip(witness_data) = <<>>
    THEN Return(CompileResult(PyNone, PyStr(<<"Witness data is empty">>), PyNone), 0)
    ELSE IF code = <<>> \/ strip(code) = <<>>
    THEN Return(CompileResult(PyNone, PyStr(<<"Code is empty">>), PyNone), 0)
    ELSE LET checked == validate_json(witness_data)
             witness_json == json_loads(witness_data)
         IN  IF ~checked.is_valid
             THEN Return(CompileResult(PyNone, checked.error_msg, PyNone), 0)
             ELSE IF ~has_len(json_loads(witness_data).v)
             THEN Raise("TypeError", 1)
             ELSE IF ~witness_json.ok
             THEN Return(CompileResult(PyNone,
                             PyStr(<<"Witness parse error: ", JSONDecodeErrorText>>),
                             PyNone), 2)
             ELSE Return(CompileResult(PyStr(<<PlaceholderCMR>>), PyNone, witness_json.v), 2)

\* compile_with_witness that validates the JSON before it tests for a blank witness
compile_with_witness_json_first(code, witness_data) ==
    IF code = <<>> \/ strip(code) = <<>>
    THEN Return(CompileResult(PyNone, PyStr(<<"Code is empty">>), PyNone), 0)
    ELSE LET checked == validate_json(witness_data)
             witness_json == json_loads(witness_data)
         IN  IF ~checked.is_valid
             THEN Return(CompileResult(PyNone, checked.error_msg, PyNone), 0)
             ELSE IF witness_data = <<>> \/ strip(witness_data) = <<>>
             THEN Return(CompileResult(PyNone, PyStr(<<"Witness data is empty">>), PyNone), 0)
             ELSE IF ~has_len(json_loads(witness_data).v)
             THEN Raise("TypeError", 1)
             ELSE IF ~witness_json.ok
             THEN Return(CompileResult(PyNone,
                             PyStr(<<"Witness parse error: ", JSONDecodeErrorText>>),
                             PyNone), 2)
             ELSE Return(CompileResult(PyStr(<<PlaceholderCMR>>), PyNone, witness_json.v), 2)

\* compile_with_witness whose CMR is computed over the program with its witness bound
compile_with_witness_hashes_witness(code, witness_data) ==
    IF code = <<>> \/ strip(code) = <<>>
    THEN Return(CompileResult(PyNone, PyStr(<<"Code is empty">>), PyNone), 0)
    ELSE IF witness_data = <<>> \/ strip(witness_data) = <<>>
    THEN Return(CompileResult(PyNone, PyStr(<<"Witness data is empty">>), PyNone), 0)
    ELSE LET checked == validate_json(witness_data)
             witness_json == json_loads(witness_data)
         IN  IF ~checked.is_valid
             THEN Return(CompileResult(PyNone, checked.error_msg, PyNone), 0)
             ELSE IF ~has_len(json_loads(witness_data).v)
             THEN Raise("TypeError", 1)
             ELSE IF ~witness_json.ok
             THEN Return(CompileResult(PyNone,
                             PyStr(<<"Witness parse error: ", JSONDecodeErrorText>>),
                             PyNone), 2)
             ELSE Return(CompileResult(PyStr(<<PlaceholderCMR>> \o witness_data),
                                       PyNone, witness_json.v), 2)

compile_with_witness(code, witness_data) ==
    IF code = <<>> \/ strip(code) = <<>>
    THEN Return(CompileResult(PyNone, PyStr(<<"Code is empty">>), PyNone), 0)
    ELSE IF witness_data = <<>> \/ strip(witness_data) = <<>>
    THEN Return(CompileResult(PyNone, PyStr(<<"Witness data is empty">>), PyNone), 0)
    ELSE LET checked == validate_json(witness_data)
             witness_json == json_loads(witness_data)
         IN  IF ~checked.is_valid
             THEN Return(CompileResult(PyNone, checked.error_msg, PyNone), 0)
             ELSE IF ~has_len(json_loads(witness_data).v)
             THEN Raise("TypeError", 1)
             ELSE IF ~witness_json.ok
             THEN Return(CompileResult(PyNone,
                             PyStr(<<"Witness parse error: ", JSONDecodeErrorText>>),
                             PyNone), 2)
             ELSE Return(CompileResult(PyStr(<<PlaceholderCMR>>), PyNone, witness_json.v), 2)

\* ------------------------------------------------------------ /api/compile
\* What the caller is handed: a to_dict() dictionary (status 0) or a JSON body
\* with its HTTP status
NoResponse ==
    [status |-> -1, cmr |-> PyNone, error |-> PyNone,
     has_witness_data |-> FALSE, witness_data |-> PyNone]

Body(status, d) ==
    [status |-> status, cmr |-> d.cmr, error |-> d.error,
     has_witness_data |-> d.has_witness_data, witness_data |-> d.witness_data]

ErrorBody(status, pieces) ==
    [status |-> status, cmr |-> PyNone, error |-> PyStr(pieces),
     has_witness_data |-> FALSE, witness_data |-> PyNone]

\* data: the request's JSON.  shape "falsy" is None or an empty container, shape
\* "nonstr" is a dict whose code is not a str, shape "dict" is a dict whose code
\* and witness_data, where present, are str
api_compile(data) ==
    IF data.shape = "falsy"
    THEN [response |-> ErrorBody(400, <<"No JSON data provided">>), lines |-> 0]
    ELSE IF data.shape = "nonstr"
    THEN [response |-> ErrorBody(500, <<"Server error: ", "AttributeError">>), lines |-> 1]
    ELSE LET code == strip(IF data.has_code THEN data.code ELSE <<>>)
             given == data.has_witness /\ data.witness # <<>>
             witness_data == IF given THEN strip(data.witness) ELSE <<>>
             compiled == IF witness_data # <<>>
                         THEN compile_with_witness(code, witness_data)
                         ELSE compile_simplicity(code)
         IN  IF compiled.raised # "None"
             THEN [response |-> ErrorBody(500, <<"Server error: ", compiled.raised>>),
                   lines |-> 1 + compiled.lines + 1]
             ELSE [response |-> Body(200, to_dict(compiled.value)),
                   lines |-> 1 + compiled.lines + 1]

\* ------------------------------------------------------------ inputs
\* all sequences over alphabet of length at most n
RECURSIVE SeqsUpTo(_, _)
SeqsUpTo(alphabet, n) ==
    IF n = 0 THEN {<<>>}
    ELSE LET shorter == SeqsUpTo(alphabet, n - 1)
         IN  shorter \cup {Append(q, c) : q \in shorter, c \in alphabet}

\* lexemes of a source text: whitespace and three combinators of the language
CodeChars == {" ", "unit", "witness::VALUE"}
Sources == SeqsUpTo(CodeChars, MaxCodeLen)

\* lexemes of a witness text, and longer witness texts beyond MaxWitnessLen
WitnessChars == {" ", "{", "}", "[", "]", ":", "1", "\"VALUE\""}
WitnessCorpus ==
    { <<"{", "\"VALUE\"", ":", "1", "}">>,
      <<"{", "\"OTHER\"", ":", "1", "}">>,
      <<"{", "\"VALUE\"", ":", "0", ",", "\"VALUE\"", ":", "1", "}">>,
      <<"{", "\"VALUE\"", ":", "1", ",", "}">>,
      <<" ", "{", " ", "}", " ">>,
      <<"[", "]">>,
      <<"[", "1", ",", "null", "]">>,
      <<"[", "1", ",", "]">>,
      <<"[", "{", "}", "]">>,
      <<"null">>, <<"true">>, <<"false">>, <<"0">>,
      <<"\"\"">>, <<"\"OTHER\"">>,
      <<"not", " ", "json">> }
Witnesses == SeqsUpTo(WitnessChars, MaxWitnessLen) \cup WitnessCorpus

Request(kind, shape, has_code, code, has_witness, witness) ==
    [kind |-> kind, shape |-> shape, has_code |-> has_code, code |-> code,
     has_witness |-> has_witness, witness |-> witness]

\* direct calls of the two functions, and POST /api/compile with a JSON body
Requests ==
    {Request("compile_simplicity", "call", TRUE, c, FALSE, <<>>) : c \in Sources}
    \cup {Request("compile_with_witness", "call", TRUE, c, TRUE, w) :
            c \in Sources, w \in Witnesses}
    \cup {Request("api_compile", "falsy", FALSE, <<>>, FALSE, <<>>),
          Request("api_compile", "nonstr", TRUE, <<>>, FALSE, <<>>)}
    \cup {Request("api_compile", "dict", TRUE, c, TRUE, w) : c \in Sources, w \in Witnesses}
    \cup {Request("api_compile", "dict", TRUE, c, FALSE, <<>>) : c \in Sources}
    \cup {Request("api_compile", "dict", FALSE, <<>>, TRUE, w) : w \in Witnesses}
    \cup {Request("api_compile", "dict", FALSE, <<>>, FALSE, <<>>)}

\* a call made by another client of the same process
OtherRequests == {Request("compile_with_witness", "call", TRUE, <<"unit">>, TRUE, <<"{", "}">>)}

\* ------------------------------------------------------------ calls
Pending == [raised |-> "pending", value |-> CompileResult(PyNone, PyNone, PyNone), lines |-> 0]

\* one call: the result of the function, the response handed over, the lines logged
Serve(req) ==
    IF req.kind = "api_compile"
    THEN LET r == api_compile(req)
         IN  [result |-> Pending, response |-> r.response, lines |-> r.lines]
    ELSE LET r == IF req.kind = "compile_simplicity"
                  THEN compile_simplicity(req.code)
                  ELSE compile_with_witness(req.code, req.witness)
         IN  [result |-> r,
              response |-> IF r.raised = "None" THEN Body(0, to_dict(r.value)) ELSE NoResponse,
              lines |-> r.lines]

Init ==
    /\ request \in Requests
    /\ result = Pending
    /\ response = NoResponse
    /\ first = [result |-> Pending, response |-> NoResponse, at |-> 0]
    /\ own = 0
    /\ calls = 0
    /\ since = 0
    /\ log = 0

\* the call returns (or raises): its outcome is what the caller now holds
Answer(served) ==
    /\ result' = served.result
    /\ response' = served.response
    /\ first' = IF own = 0
                THEN [result |-> served.result, response |-> served.response,
                      at |-> calls + 1]
                ELSE first
    /\ log' = log + served.lines
    /\ own' = own + 1
    /\ calls' = calls + 1
    /\ since' = 0
    /\ UNCHANGED request

CallCompileSimplicity ==
    /\ request.kind = "compile_simplicity"
    /\ calls < MaxCalls
    /\ Answer(Serve(request))

CallCompileWithWitness ==
    /\ request.kind = "compile_with_witness"
    /\ calls < MaxCalls
    /\ Answer(Serve(request))

CallApiCompile ==
    /\ request.kind = "api_compile"
    /\ calls < MaxCalls
    /\ Answer(Serve(request))

\* another client's call completes between two calls of request
OtherCall ==
    /\ calls < MaxCalls
    /\ \E other \in OtherRequests : log' = log + Serve(other).lines
    /\ calls' = calls + 1
    /\ since' = since + 1
    /\ UNCHANGED <<request, result, response, first, own>>

Next ==
    \/ CallCompileSimplicity
    \/ CallCompileWithWitness
    \/ CallApiCompile
    \/ OtherCall

Spec == Init /\ [][Next]_vars

\* ------------------------------------------------------------ properties
\* s is empty or holds whitespace only
IsBlank(s) == \A i \in 1..Len(s) : s[i] \in Whitespace

\* the non-whitespace lexemes of a source, in order
Lexemes(s) == SelectSeq(s, LAMBDA c : c \notin Whitespace)

Direct == request.kind \in {"compile_simplicity", "compile_with_witness"}
Called == own > 0
Returned == Called /\ Direct /\ result.raised = "None"
Succeeded == Returned /\ result.value.cmr # PyNone
ErrorIs(pieces) ==
    /\ Returned
    /\ result.value.cmr = PyNone
    /\ result.value.error = PyStr(pieces)

\* C1: a non-null error never comes with a successful-looking result: in every
\* CompileResult the two functions return and in every dictionary or JSON body
\* handed to a caller, error # None implies cmr = None and no witness_data, and
\* cmr # None implies error = None.
C1_NoErrorWithSuccess ==
    /\ Returned =>
         /\ result.value.error # PyNone =>
              result.value.cmr = PyNone /\ result.value.witness_data = PyNone
         /\ result.value.cmr # PyNone => result.value.error = PyNone
    /\ (Called /\ response # NoResponse) =>
         /\ response.error # PyNone =>
              /\ response.cmr = PyNone
              /\ ~response.has_witness_data
              /\ response.witness_data = PyNone
         /\ response.cmr # PyNone => response.error = PyNone

\* C1 witness: /api/compile answered 200 with an error for a malformed witness
C1_Witness ==
    /\ Called
    /\ request.kind = "api_compile"
    /\ request.witness = <<"not", " ", "json">>
    /\ response.status = 200
    /\ response.error # PyNone

\* C2: for a source that is empty or whitespace only, compile_simplicity and
\* compile_with_witness (whatever the witness) return cmr = None and the error
\* "Code is empty".
C2_EmptySource ==
    (Called /\ Direct /\ IsBlank(request.code)) => ErrorIs(<<"Code is empty">>)

\* C2 witness: compile_with_witness was called with a whitespace-only source and
\* a blank witness
C2_Witness ==
    /\ Called
    /\ request.kind = "compile_with_witness"
    /\ request.code = <<" ", " ">>
    /\ request.witness = <<" ">>
    /\ ErrorIs(<<"Code is empty">>)

C4_WitnessIndependent ==
    (Succeeded /\ request.kind = "compile_with_witness") =>
        result.value.cmr = compile_simplicity(request.code).value.cmr

\* C4 witness: compile_with_witness succeeded with a non-empty witness object
C4_Witness ==
    /\ Succeeded
    /\ request.kind = "compile_with_witness"
    /\ result.value.witness_data.t = "dict"
    /\ result.value.witness_data.keys # <<>>

\* C5 as stated: for a non-empty source and a non-blank witness that is not
\* well-formed JSON, compile_with_witness returns cmr = None, no witness_data, and
\* an error that begins with "Invalid JSON: ".
C5_InvalidJson_NonEmptySource ==
    (/\ Called
     /\ request.kind = "compile_with_witness"
     /\ request.code # <<>>
     /\ ~IsBlank(request.witness)
     /\ ~json_loads(request.witness).ok)
    => /\ Returned
       /\ result.value.cmr = PyNone
       /\ result.value.witness_data = PyNone
       /\ ~response.has_witness_data
       /\ result.value.error.t = "str"
       /\ Len(result.value.error.s) >= 1
       /\ result.value.error.s[1] = "Invalid JSON: "

\* C5 amended: for a source that is neither empty nor whitespace only and a
\* non-blank witness that is not well-formed JSON, compile_with_witness returns
\* cmr = None, no witness_data, and an error that begins with "Invalid JSON: ".
C5_InvalidJson ==
    (/\ Called
     /\ request.kind = "compile_with_witness"
     /\ ~IsBlank(request.code)
     /\ ~IsBlank(request.witness)
     /\ ~json_loads(request.witness).ok)
    => /\ Returned
       /\ result.value.cmr = PyNone
       /\ result.value.witness_data = PyNone
       /\ ~response.has_witness_data
       /\ result.value.error.t = "str"
       /\ Len(result.value.error.s) >= 1
       /\ result.value.error.s[1] = "Invalid JSON: "

\* C5 witness: compile_with_witness was called with the witness text "not json"
C5_Witness ==
    /\ Called
    /\ request.kind = "compile_with_witness"
    /\ request.code = <<"witness::VALUE">>
    /\ request.witness = <<"not", " ", "json">>
    /\ Returned

\* C6: when the source references witness::VALUE and the witness object has no
\* entry VALUE, compile_with_witness returns no CMR and an error naming VALUE.
C6_MissingWitness ==
    (/\ Called
     /\ request.kind = "compile_with_witness"
     /\ \E i \in 1..Len(request.code) : request.code[i] = "witness::VALUE"
     /\ json_loads(request.witness).ok
     /\ json_loads(request.witness).v.t = "dict"
     /\ \A i \in 1..Len(json_loads(request.witness).v.keys) :
            json_loads(request.witness).v.keys[i] # <<"VALUE">>)
    => /\ Returned
       /\ result.value.cmr = PyNone
       /\ result.value.error.t = "str"
       /\ \E i \in 1..Len(result.value.error.s) : result.value.error.s[i] = "VALUE"

\* C7: compile_simplicity and compile_with_witness are total: every call returns
\* a CompileResult that carries a CMR or an error, and none raises.
C7_Total ==
    (Called /\ Direct) =>
        /\ result.raised = "None"
        /\ result.value.cmr # PyNone \/ result.value.error # PyNone

\* C8: two sources that both compile and differ in their lexemes (a combinator
\* kind, the order of operands) get different CMRs.
C8_StructurallySensitive ==
    (Succeeded /\ request.kind = "compile_simplicity") =>
        \A other \in Sources :
            LET r == compile_simplicity(other)
            IN  (/\ r.raised = "None"
                 /\ r.value.cmr # PyNone
                 /\ Lexemes(other) # Lexemes(request.code))
                => r.value.cmr # result.value.cmr

\* C9: whenever compile_with_witness succeeds, the dictionary to_dict() hands to
\* the caller carries witness_data, equal to the parsed witness JSON.
C9_WitnessDataEchoed ==
    (Succeeded /\ request.kind = "compile_with_witness") =>
        /\ response.has_witness_data
        /\ response.witness_data = json_loads(request.witness).v

====
